---- MODULE Spec2Model ----
(***************************************************************************)
(* The retry engine of fetchy, in its two implementations:                 *)
(*   impl = "main"  src/src/main.ts       (_fetchWithRetry/_shouldNotRetry) *)
(*   impl = "p006"  src/unnamed/part_006  (_fetchWithRetry/_shouldRetry)    *)
(* One logical call is modelled from the construction of its options to    *)
(* the value or error the caller finally sees.  The transport (fetch) is   *)
(* the environment: each call of it answers with a response or rejects.    *)
(* All durations are in milliseconds (interval 3 s = 3000).                *)
(* Suspension points are the transport call and the backoff wait; the      *)
(* call's abort signal fires only there (JavaScript runs to completion).   *)
(* The jitter wait before fetch is part of the attempt actions; the body    *)
(* parsing a caller asked for is part of the step that ends the call.      *)
(* Spec draws every retry policy for the functions fetchy and sfetchy;     *)
(* SpecApi draws every entry point of the public API for a few policies;   *)
(* SpecBackoff applies the backoff computation to successive counts;       *)
(* SpecPolicy builds the effective policy from a caller's numbers;         *)
(* SpecTwo runs two concurrent calls that share the caller's options, the  *)
(* variable other holding the call that is suspended.                      *)
(* SpecLive is Spec with weak fairness of the call's own steps;             *)
(* SpecHeaders applies the header lookup of part_006 to every combination  *)
(* of retry headers; SpecPair runs a throwing and a safe call of part_006   *)
(* side by side on the same transport answers.                             *)
(***************************************************************************)
EXTENDS Integers, Sequences, FiniteSets, TLC

VARIABLES impl, options, request, method, safe, opts, init, url, signal, i, pc, outcome,
          interval, calls, trace, next, result, other

vars == <<impl, options, request, method, safe, opts, init, url, signal, i, pc, outcome,
          interval, calls, trace, next, result, other>>

(***************************** bounds *************************************)
\* largest maxAttempts a caller passes explicitly (a missing value, the default, is also drawn)
MaxAttemptsIn == 3
\* number of seconds carried by the small retry header of the transport's answers
SmallRetryAfter == 2
\* largest attempt index the backoff computation is applied to in SpecBackoff
MaxCount == 5

(************************** program constants *****************************)
NO_RETRY_ERROR == "$$_NO_RETRY_$$"
Infinity == 1000000000
NaN == -1000000000
_NO_IDEM == {"POST", "PATCH", "CONNECT"}
HeaderNames == {"retry-after", "ratelimit-reset", "x-ratelimit-reset"}

\* main.ts _DEFAULT
_DEFAULT ==
  [timeout |-> 15000, delay |-> 0, interval |-> 3000, maxInterval |-> 30000,
   maxAttempts |-> 3, retryAfter |-> TRUE, native |-> FALSE, redirect |-> "follow"]

\* part_006 _DEFAULT
_DEFAULT_p6 ==
  [ztimeout |-> 15000, zjitter |-> 0, zinterval |-> 3000, zmaxInterval |-> 30000,
   zmaxAttempts |-> 3, zonTimeout |-> TRUE, znoIdempotent |-> FALSE,
   zstatusCodes |-> {500, 502, 503, 504, 408, 429},
   zrespects |-> <<"retry-after", "ratelimit-reset", "x-ratelimit-reset">>,
   znative |-> FALSE]

(**************************** values **************************************)
\* an optional value: <<>> is undefined, <<v>> is v
Undef == <<>>
Some(v) == <<v>>

Max(a, b) == IF a >= b THEN a ELSE b
Min(a, b) == IF a <= b THEN a ELSE b

RECURSIVE Pow(_, _)
Pow(b, e) == IF e = 0 THEN 1 ELSE b * Pow(b, e - 1)

\* header values: absent, an integer number of seconds, or an unparseable text
Absent == [t |-> "absent"]
IntHdr(v) == [t |-> "int", v |-> v]
BadHdr == [t |-> "bad"]
NoHdrs == [h \in HeaderNames |-> Absent]
RetryAfterHdr(v) == [NoHdrs EXCEPT !["retry-after"] = v]

Resp(s, h, r) == [kind |-> "resp", status |-> s, hdrs |-> h, redirected |-> r]
Err(n) == [kind |-> "err", name |-> n, message |-> "", status |-> 0]
SentinelErr == [kind |-> "err", name |-> "Error", message |-> NO_RETRY_ERROR, status |-> 0]
HTTPStatusError(resp) == [kind |-> "err", name |-> "HTTPStatusError", message |-> "", status |-> resp.status]
RedirectError(resp) == [kind |-> "err", name |-> "RedirectError", message |-> "", status |-> resp.status]
NoOutcome == [kind |-> "none"]

ok(resp) == resp.status >= 200 /\ resp.status <= 299

\* what the transport may answer
Responses ==
  {Resp(s, NoHdrs, FALSE) : s \in {200, 301, 303, 404, 429, 500, 503}}
  \cup {Resp(500, RetryAfterHdr(h), FALSE) : h \in {IntHdr(SmallRetryAfter), IntHdr(60), BadHdr}}
  \cup {Resp(s, NoHdrs, TRUE) : s \in {200, 303}}
TransportErrors == {Err("TypeError"), Err("TimeoutError"), SentinelErr}
AbortReasons == {"AbortError", "TimeoutError"}

Null == [kind |-> "null"]

(*********************** src/src/main.ts: options *************************)
\* user inputs are integers, so Math.trunc is the identity on them
_correctNumber(dflt, num, integer) ==
  IF num = Undef \/ num[1] < 0 THEN dflt ELSE num[1]

\* mutant: retry: false is not recognised, the defaults apply
_getRetryOption_ignoreOff(prop, off, retry) ==
  IF retry.off THEN _DEFAULT[prop]
  ELSE IF retry[prop] = Undef THEN _DEFAULT[prop]
  ELSE IF prop = "retryAfter" THEN retry[prop][1]
  ELSE _correctNumber(_DEFAULT[prop], retry[prop], prop = "maxAttempts")

_getRetryOption(prop, off, retry) ==
  IF retry.off THEN off
  ELSE IF retry[prop] = Undef THEN _DEFAULT[prop]
  ELSE IF prop = "retryAfter" THEN retry[prop][1]
  ELSE _correctNumber(_DEFAULT[prop], retry[prop], prop = "maxAttempts")

_getOptions(o) ==
  [timeout     |-> _correctNumber(_DEFAULT.timeout, o.timeout, FALSE),
   delay       |-> _correctNumber(_DEFAULT.delay, o.delay, FALSE),
   interval    |-> _getRetryOption("interval", 0, o.retry),
   maxInterval |-> _getRetryOption("maxInterval", 0, o.retry),
   maxAttempts |-> _getRetryOption("maxAttempts", 0, o.retry),
   retryAfter  |-> _getRetryOption("retryAfter", FALSE, o.retry),
   native      |-> IF o.native = Undef THEN _DEFAULT.native ELSE o.native[1],
   redirect    |-> IF o.redirect = Undef THEN _DEFAULT.redirect ELSE o.redirect[1]]

_getRequestInit(req, o) == [method |-> req.method]

(******************* src/src/main.ts: retry decision **********************)
_shouldRedirect(resp) == resp.status < 400 /\ resp.status >= 300
_shouldCorrectRequest(resp) == resp.status < 500 /\ resp.status >= 400

\* seconds in the header, milliseconds out; Infinity when it cannot be parsed
_parseRetryAfter(value) ==
  IF value.t = "int" THEN value.v * 1000 ELSE Infinity

\* Math.pow(Math.max(1, interval), count) seconds, for a base of whole seconds
PowSeconds(baseMs, count) == 1000 * Pow(baseMs \div 1000, count)

\* mutant: the exponent is the number of the attempt, not its index
_getNextInterval_nextCount(count, o, resp) ==
  IF o.retryAfter /\ resp.kind = "resp" /\ resp.hdrs["retry-after"] # Absent
  THEN Max(_parseRetryAfter(resp.hdrs["retry-after"]), o.interval)
  ELSE Min(PowSeconds(Max(1000, o.interval), count + 1), o.maxInterval)

\* mutant: the header value is taken as it is
_getNextInterval_headerOnly(count, o, resp) ==
  IF o.retryAfter /\ resp.kind = "resp" /\ resp.hdrs["retry-after"] # Absent
  THEN _parseRetryAfter(resp.hdrs["retry-after"])
  ELSE Min(PowSeconds(Max(1000, o.interval), count), o.maxInterval)

_getNextInterval(count, o, resp) ==
  IF o.retryAfter /\ resp.kind = "resp" /\ resp.hdrs["retry-after"] # Absent
  THEN Max(_parseRetryAfter(resp.hdrs["retry-after"]), o.interval)
  ELSE Min(PowSeconds(Max(1000, o.interval), count), o.maxInterval)

\* the three ways _shouldNotRetry ends: return true ("stop"), throw the
\* RedirectError ("throw"), or wait the interval and return false ("wait")
Decision(d, iv) == [d |-> d, interval |-> iv]

\* mutant: the attempt budget is compared off by one
_shouldNotRetry_offByOne(count, sig, o, resp) ==
  IF count >= o.maxAttempts \/ sig # "live" THEN Decision("stop", 0)
  ELSE IF resp.kind = "resp" /\ (ok(resp) \/ _shouldCorrectRequest(resp) \/ o.native)
    THEN Decision("stop", 0)
  ELSE IF resp.kind = "resp" /\ _shouldRedirect(resp) /\ o.redirect = "manual"
    THEN Decision("stop", 0)
  ELSE IF resp.kind = "resp" /\ _shouldRedirect(resp) /\ o.redirect = "error"
    THEN Decision("throw", 0)
  ELSE LET iv == _getNextInterval(count, o, resp)
       IN IF iv > o.maxInterval THEN Decision("stop", 0) ELSE Decision("wait", iv)

\* mutant: an OK response does not stop the loop
_shouldNotRetry_noOk(count, sig, o, resp) ==
  IF count >= o.maxAttempts - 1 \/ sig # "live" THEN Decision("stop", 0)
  ELSE IF resp.kind = "resp" /\ (_shouldCorrectRequest(resp) \/ o.native)
    THEN Decision("stop", 0)
  ELSE IF resp.kind = "resp" /\ _shouldRedirect(resp) /\ o.redirect = "manual"
    THEN Decision("stop", 0)
  ELSE IF resp.kind = "resp" /\ _shouldRedirect(resp) /\ o.redirect = "error"
    THEN Decision("throw", 0)
  ELSE LET iv == _getNextInterval(count, o, resp)
       IN IF iv > o.maxInterval THEN Decision("stop", 0) ELSE Decision("wait", iv)

\* mutant: passthrough mode does not stop the loop
_shouldNotRetry_noNative(count, sig, o, resp) ==
  IF count >= o.maxAttempts - 1 \/ sig # "live" THEN Decision("stop", 0)
  ELSE IF resp.kind = "resp" /\ (ok(resp) \/ _shouldCorrectRequest(resp))
    THEN Decision("stop", 0)
  ELSE IF resp.kind = "resp" /\ _shouldRedirect(resp) /\ o.redirect = "manual"
    THEN Decision("stop", 0)
  ELSE IF resp.kind = "resp" /\ _shouldRedirect(resp) /\ o.redirect = "error"
    THEN Decision("throw", 0)
  ELSE LET iv == _getNextInterval(count, o, resp)
       IN IF iv > o.maxInterval THEN Decision("stop", 0) ELSE Decision("wait", iv)

\* mutant: a 4xx response does not stop the loop
_shouldNotRetry_no4xx(count, sig, o, resp) ==
  IF count >= o.maxAttempts - 1 \/ sig # "live" THEN Decision("stop", 0)
  ELSE IF resp.kind = "resp" /\ (ok(resp) \/ o.native)
    THEN Decision("stop", 0)
  ELSE IF resp.kind = "resp" /\ _shouldRedirect(resp) /\ o.redirect = "manual"
    THEN Decision("stop", 0)
  ELSE IF resp.kind = "resp" /\ _shouldRedirect(resp) /\ o.redirect = "error"
    THEN Decision("throw", 0)
  ELSE LET iv == _getNextInterval(count, o, resp)
       IN IF iv > o.maxInterval THEN Decision("stop", 0) ELSE Decision("wait", iv)

_shouldNotRetry(count, sig, o, resp) ==
  IF count >= o.maxAttempts - 1 \/ sig # "live" THEN Decision("stop", 0)
  ELSE IF resp.kind = "resp" /\ (ok(resp) \/ _shouldCorrectRequest(resp) \/ o.native)
    THEN Decision("stop", 0)
  ELSE IF resp.kind = "resp" /\ _shouldRedirect(resp) /\ o.redirect = "manual"
    THEN Decision("stop", 0)
  ELSE IF resp.kind = "resp" /\ _shouldRedirect(resp) /\ o.redirect = "error"
    THEN Decision("throw", 0)
  ELSE LET iv == _getNextInterval(count, o, resp)
       IN IF iv > o.maxInterval THEN Decision("stop", 0) ELSE Decision("wait", iv)

\* mutant: the method is kept after a 303
_handleRedirectResponse_keepMethod(u, ini, resp) ==
  IF ~resp.redirected THEN [url |-> u, init |-> ini]
  ELSE [url |-> "redirected", init |-> ini]

_handleRedirectResponse(u, ini, resp) ==
  IF ~resp.redirected THEN [url |-> u, init |-> ini]
  ELSE [url |-> "redirected",
        init |-> IF resp.status = 303 THEN [ini EXCEPT !.method = "GET"] ELSE ini]

(******************* src/unnamed/part_006: options ************************)
\* mutant: a negative number is kept
_correctNumber_p6_keepNegative(dflt, num) ==
  IF num # Undef THEN num[1] ELSE dflt

_correctNumber_p6(dflt, num) ==
  IF num # Undef /\ num[1] >= 0 THEN num[1] ELSE dflt

\* mutant: idempotentOnly is ignored
_getRetryOption_p6_anyMethod(ini, retry) ==
  IF retry.off THEN [_DEFAULT_p6 EXCEPT !.zmaxAttempts = 1]
  ELSE [_DEFAULT_p6 EXCEPT
          !.zmaxAttempts = Max(_correctNumber_p6(_DEFAULT_p6.zmaxAttempts, retry.maxAttempts), 1),
          !.zinterval = Max(_correctNumber_p6(_DEFAULT_p6.zinterval, retry.interval), 10),
          !.zmaxInterval = Max(_correctNumber_p6(_DEFAULT_p6.zmaxInterval, retry.maxInterval), 1000),
          !.zonTimeout = IF retry.retryOnTimeout = Undef THEN _DEFAULT_p6.zonTimeout
                         ELSE retry.retryOnTimeout[1],
          !.znoIdempotent = FALSE,
          !.zstatusCodes = IF retry.statusCodes = Undef THEN _DEFAULT_p6.zstatusCodes
                           ELSE retry.statusCodes[1],
          !.zrespects = IF retry.respectHeaders = Undef THEN _DEFAULT_p6.zrespects
                        ELSE retry.respectHeaders[1]]

_getRetryOption_p6(ini, retry) ==
  IF retry.off THEN [_DEFAULT_p6 EXCEPT !.zmaxAttempts = 1]
  ELSE [_DEFAULT_p6 EXCEPT
          !.zmaxAttempts = Max(_correctNumber_p6(_DEFAULT_p6.zmaxAttempts, retry.maxAttempts), 1),
          !.zinterval = Max(_correctNumber_p6(_DEFAULT_p6.zinterval, retry.interval), 10),
          !.zmaxInterval = Max(_correctNumber_p6(_DEFAULT_p6.zmaxInterval, retry.maxInterval), 1000),
          !.zonTimeout = IF retry.retryOnTimeout = Undef THEN _DEFAULT_p6.zonTimeout
                         ELSE retry.retryOnTimeout[1],
          !.znoIdempotent = IF retry.idempotentOnly = Some(TRUE)
                            THEN ini.method \in _NO_IDEM ELSE FALSE,
          !.zstatusCodes = IF retry.statusCodes = Undef THEN _DEFAULT_p6.zstatusCodes
                           ELSE retry.statusCodes[1],
          !.zrespects = IF retry.respectHeaders = Undef THEN _DEFAULT_p6.zrespects
                        ELSE retry.respectHeaders[1]]

_getOptions_p6(ini, o) ==
  [_getRetryOption_p6(ini, o.retry) EXCEPT
     !.ztimeout = _correctNumber_p6(_DEFAULT_p6.ztimeout, o.timeout),
     !.zjitter = _correctNumber_p6(_DEFAULT_p6.zjitter, o.jitter),
     !.znative = IF o.native = Undef THEN _DEFAULT_p6.znative ELSE o.native[1]]

(***************** src/unnamed/part_006: retry decision *******************)
\* mutant: the error threshold is 200 instead of 400
_isHttpError_from200(stat) == stat >= 200 \/ stat < 100

_isHttpError(stat) == stat >= 400 \/ stat < 100

\* seconds in the header, milliseconds out; NaN when it cannot be parsed
_parseRetryHeader(value) ==
  IF value.t = "int" THEN value.v * 1000 ELSE NaN

RECURSIVE FindFrom(_, _, _)
FindFrom(k, o, headers) ==
  IF k > Len(o.zrespects) THEN Undef
  ELSE LET value == _parseRetryHeader(headers[o.zrespects[k]])
       IN IF value # NaN THEN Some(Max(value, o.zinterval))
          ELSE FindFrom(k + 1, o, headers)

\* mutant: only the first header that is present is looked at
RECURSIVE FirstPresentFrom(_, _, _)
FirstPresentFrom(k, o, headers) ==
  IF k > Len(o.zrespects) THEN Undef
  ELSE IF headers[o.zrespects[k]] = Absent THEN FirstPresentFrom(k + 1, o, headers)
  ELSE LET value == _parseRetryHeader(headers[o.zrespects[k]])
       IN IF value # NaN THEN Some(Max(value, o.zinterval)) ELSE Undef

_findRetryHeader_firstPresent(o, headers) == FirstPresentFrom(1, o, headers)

_findRetryHeader(o, headers) == FindFrom(1, o, headers)

\* mutant: without a parseable header the exponential backoff is used
_getNextInterval_p6_expFallback(count, o, headers) ==
  LET f == _findRetryHeader(o, headers)
  IN IF f # Undef THEN f[1] ELSE Min(o.zinterval * Pow(2, count), o.zmaxInterval)

\* mutant: the interval is raised to the power of the index
_getNextInterval_p6_pow(count, o, headers) ==
  IF \E k \in 1..Len(o.zrespects) : headers[o.zrespects[k]] # Absent
  THEN LET f == _findRetryHeader(o, headers) IN IF f = Undef THEN o.zinterval ELSE f[1]
  ELSE Min(PowSeconds(o.zinterval, count), o.zmaxInterval)

\* mutant: the backoff is not capped
_getNextInterval_p6_noCap(count, o, headers) ==
  IF \E k \in 1..Len(o.zrespects) : headers[o.zrespects[k]] # Absent
  THEN LET f == _findRetryHeader(o, headers) IN IF f = Undef THEN o.zinterval ELSE f[1]
  ELSE o.zinterval * Pow(2, count)

_getNextInterval_p6(count, o, headers) ==
  IF \E k \in 1..Len(o.zrespects) : headers[o.zrespects[k]] # Absent
  THEN LET f == _findRetryHeader(o, headers) IN IF f = Undef THEN o.zinterval ELSE f[1]
  ELSE Min(o.zinterval * Pow(2, count), o.zmaxInterval)

\* mutant: passthrough mode does not stop the loop
_shouldRetry_noNative(count, o, r) ==
  IF o.znoIdempotent \/ count >= o.zmaxAttempts - 1 THEN Decision("stop", 0)
  ELSE IF r.kind = "resp"
    THEN IF r.status \notin o.zstatusCodes THEN Decision("stop", 0)
         ELSE LET iv == _getNextInterval_p6(count, o, r.hdrs)
              IN IF iv > o.zmaxInterval THEN Decision("stop", 0) ELSE Decision("wait", iv)
  ELSE IF r.name = "TimeoutError" /\ o.zonTimeout THEN Decision("retry", 0)
       ELSE Decision("stop", 0)

\* mutant: every thrown error is retried, not only a TimeoutError
_shouldRetry_anyError(count, o, r) ==
  IF o.znoIdempotent \/ count >= o.zmaxAttempts - 1 THEN Decision("stop", 0)
  ELSE IF r.kind = "resp"
    THEN IF o.znative \/ r.status \notin o.zstatusCodes THEN Decision("stop", 0)
         ELSE LET iv == _getNextInterval_p6(count, o, r.hdrs)
              IN IF iv > o.zmaxInterval THEN Decision("stop", 0) ELSE Decision("wait", iv)
  ELSE IF o.zonTimeout THEN Decision("retry", 0)
       ELSE Decision("stop", 0)

\* mutant: the interval is not compared with maxInterval
_shouldRetry_noCeiling(count, o, r) ==
  IF o.znoIdempotent \/ count >= o.zmaxAttempts - 1 THEN Decision("stop", 0)
  ELSE IF r.kind = "resp"
    THEN IF o.znative \/ r.status \notin o.zstatusCodes THEN Decision("stop", 0)
         ELSE Decision("wait", _getNextInterval_p6(count, o, r.hdrs))
  ELSE IF r.name = "TimeoutError" /\ o.zonTimeout THEN Decision("retry", 0)
       ELSE Decision("stop", 0)

\* mutant: the default status codes are used, not the configured ones
_shouldRetry_defaultCodes(count, o, r) ==
  IF o.znoIdempotent \/ count >= o.zmaxAttempts - 1 THEN Decision("stop", 0)
  ELSE IF r.kind = "resp"
    THEN IF o.znative \/ r.status \notin _DEFAULT_p6.zstatusCodes THEN Decision("stop", 0)
         ELSE LET iv == _getNextInterval_p6(count, o, r.hdrs)
              IN IF iv > o.zmaxInterval THEN Decision("stop", 0) ELSE Decision("wait", iv)
  ELSE IF r.name = "TimeoutError" /\ o.zonTimeout THEN Decision("retry", 0)
       ELSE Decision("stop", 0)

\* mutant: a timeout is retried whatever retryOnTimeout says
_shouldRetry_alwaysTimeout(count, o, r) ==
  IF o.znoIdempotent \/ count >= o.zmaxAttempts - 1 THEN Decision("stop", 0)
  ELSE IF r.kind = "resp"
    THEN IF o.znative \/ r.status \notin o.zstatusCodes THEN Decision("stop", 0)
         ELSE LET iv == _getNextInterval_p6(count, o, r.hdrs)
              IN IF iv > o.zmaxInterval THEN Decision("stop", 0) ELSE Decision("wait", iv)
  ELSE IF r.name = "TimeoutError" THEN Decision("retry", 0)
       ELSE Decision("stop", 0)

\* mutant: the last attempt may be retried too
_shouldRetry_lastToo(count, o, r) ==
  IF o.znoIdempotent \/ count >= o.zmaxAttempts THEN Decision("stop", 0)
  ELSE IF r.kind = "resp"
    THEN IF o.znative \/ r.status \notin o.zstatusCodes THEN Decision("stop", 0)
         ELSE LET iv == _getNextInterval_p6(count, o, r.hdrs)
              IN IF iv > o.zmaxInterval THEN Decision("stop", 0) ELSE Decision("wait", iv)
  ELSE IF r.name = "TimeoutError" /\ o.zonTimeout THEN Decision("retry", 0)
       ELSE Decision("stop", 0)

\* _shouldRetry ends with false ("stop"), with true at once ("retry"), or with
\* true after waiting the interval ("wait")
_shouldRetry(count, o, r) ==
  IF o.znoIdempotent \/ count >= o.zmaxAttempts - 1 THEN Decision("stop", 0)
  ELSE IF r.kind = "resp"
    THEN IF o.znative \/ r.status \notin o.zstatusCodes THEN Decision("stop", 0)
         ELSE LET iv == _getNextInterval_p6(count, o, r.hdrs)
              IN IF iv > o.zmaxInterval THEN Decision("stop", 0) ELSE Decision("wait", iv)
  ELSE IF r.name = "TimeoutError" /\ o.zonTimeout THEN Decision("retry", 0)
       ELSE Decision("stop", 0)

(***************************** inputs **************************************)
OptNum(S) == {Undef} \cup {Some(v) : v \in S}

\* RetryOptions a caller of main.ts passes (retry: false is [off |-> TRUE])
RetryOptions ==
  {[off |-> TRUE]}
  \cup {[off |-> FALSE, maxAttempts |-> a, interval |-> b, maxInterval |-> c, retryAfter |-> d] :
          a \in OptNum(0..MaxAttemptsIn), b \in OptNum({10}), c \in OptNum({1000}),
          d \in OptNum({FALSE})}

FetchyOptions ==
  [retry : RetryOptions, native : OptNum({TRUE}), redirect : OptNum({"error", "manual"}),
   timeout : {Undef}, delay : {Undef}]

\* RetryOptions a caller of part_006 passes
RetryOptions_p6 ==
  {[off |-> TRUE]}
  \cup {[off |-> FALSE, maxAttempts |-> a, interval |-> b, maxInterval |-> c,
         retryOnTimeout |-> d, idempotentOnly |-> e, statusCodes |-> f,
         respectHeaders |-> Undef] :
          a \in OptNum(0..MaxAttemptsIn), b \in OptNum({10}), c \in OptNum({1000}),
          d \in OptNum({FALSE}), e \in OptNum({TRUE}), f \in OptNum({{500}})}

FetchyOptions_p6 ==
  [retry : RetryOptions_p6, native : OptNum({TRUE}), timeout : {Undef}, jitter : {Undef}]

\* the request of the call: its method and whether the Request carries a body
Requests ==
  {[method |-> "GET", hasBody |-> FALSE], [method |-> "POST", hasBody |-> FALSE],
   [method |-> "POST", hasBody |-> TRUE]}

(*************************** the public API *********************************)
\* an entry point of the API: its name, the function it calls, the parsing it asks for
Method(name, fn, parse) == [name |-> name, fn |-> fn, parse |-> parse]

\* main.ts: the instance methods of class fy that the model draws
fy ==
  {Method("fy.json", "fetchy", "json"),
   Method("fy.safe", "sfetchy", "none"),
   Method("fy.stext", "fetchy", "text"),
   Method("fy.sjson", "fetchy", "json"),
   Method("fy.sbytes", "fetchy", "bytes"),
   Method("fy.sblob", "fetchy", "blob"),
   Method("fy.sbuffer", "fetchy", "buffer"),
   Method("fy.sform", "sfetchy", "form")}

\* the functions fetchy and sfetchy, called without a parse method
Functions == {Method("fetchy", "fetchy", "none"), Method("sfetchy", "sfetchy", "none")}

\* part_006: a parsing method of _METHODS called on what fetchy or sfetchy returned
_METHODS == {"text", "json", "bytes", "blob", "arrayBuffer", "formData"}
Methods_p6 == {Method(m, fn, m) : fn \in {"fetchy", "sfetchy"}, m \in _METHODS}

\* Response.json(), .text(), ...: the parsed body, or the error of a body that
\* does not parse
Body(resp, parse) == [kind |-> "body", parse |-> parse, status |-> resp.status]
Parse(resp, parse) == {Body(resp, parse), Err("SyntaxError")}

\* main.ts: switch (method) { case "json": return await resp.json(); ... }
_parseBody(resp, parse) == Parse(resp, parse)

\* part_006: resp.then((x) => x[m]()), with .catch(() => null) in safe mode;
\* x is null when the safe call failed, and null[m] throws
_assignToPromise(r, m) ==
  IF m.parse = "none" THEN {r}
  ELSE LET then == IF r.kind = "resp" THEN Parse(r, m.parse)
                   ELSE IF r.kind = "null" THEN {Err("TypeError")}
                   ELSE {r}
       IN IF m.fn = "sfetchy"
          THEN {IF x.kind = "err" THEN Null ELSE x : x \in then}
          ELSE then

(**************************** transport ************************************)
\* fetch(input, {signal}): with an aborted signal it rejects with the abort
\* reason; otherwise it answers, rejects, or the signal fires while it runs
Transport(sig) ==
  IF sig # "live" THEN {[out |-> Err(sig), sig |-> sig]}
  ELSE {[out |-> x, sig |-> "live"] : x \in Responses \cup TransportErrors}
       \cup {[out |-> Err(r), sig |-> r] : r \in AbortReasons}

(************************** the call: main.ts ******************************)
\* for (let i = 0; i < opts.maxAttempts; i++) { try ... }  return await _fetchWithJitter(...)
LoopHead(k, o) == IF k < o.maxAttempts THEN "fetch" ELSE "tail"

\* mutant: sfetchy rethrows as fetchy does
Finish_rethrow(r) ==
  /\ pc' = "done"
  /\ result' = r

\* fetchy rethrows, sfetchy turns every error into null
Finish(r) ==
  /\ pc' = "done"
  /\ result' = IF safe /\ r.kind = "err" THEN Null ELSE r

\* the state after _main built the request, its init and the options of the call
Start(methods, policies, policies_p6) ==
  /\ impl \in {"main", "p006"}
  /\ request \in Requests
  /\ impl = "main" => ~request.hasBody
  /\ method \in methods[impl]
  /\ safe = (method.fn = "sfetchy")
  /\ options \in IF impl = "main" THEN {o \in FetchyOptions : o.retry \in policies}
                 ELSE {o \in FetchyOptions_p6 : o.retry \in policies_p6}
  /\ init = _getRequestInit(request, options)
  /\ opts = IF impl = "main" THEN _getOptions(options) ELSE _getOptions_p6(init, options)
  /\ url = "original"
  /\ signal = "live"
  /\ i = 0
  /\ pc = IF impl = "main" THEN LoopHead(0, opts) ELSE "fetch"
  /\ outcome = NoOutcome
  /\ interval = 0
  /\ calls = 0
  /\ trace = <<>>
  /\ next = "undef"
  /\ result = NoOutcome

\* no second call is running
Idle == [pc |-> "none"]

\* fetchy or sfetchy is called, with any retry policy
Init ==
  /\ Start([main |-> Functions, p006 |-> Functions], RetryOptions, RetryOptions_p6)
  /\ other = Idle

\* _fetchWithRetry loop body: _cloneInput and _fetchWithJitter (one transport call)
M_Attempt ==
  /\ impl = "main" /\ pc = "fetch"
  /\ \E t \in Transport(signal) :
       /\ outcome' = t.out
       /\ signal' = t.sig
       /\ trace' = Append(trace, t.out)
       /\ pc' = IF t.out.kind = "resp" THEN "decide" ELSE "catch"
  /\ calls' = calls + 1
  /\ UNCHANGED <<other, impl, options, request, method, safe, opts, init, url, i, interval, next, result>>

\* mutant: the redirect-error path leaves opts.maxAttempts as it is
M_Decide_keepBudget ==
  /\ impl = "main" /\ pc = "decide"
  /\ LET d == _shouldNotRetry(i, signal, opts, outcome)
     IN CASE d.d = "stop"  -> /\ pc' = "main"
                              /\ UNCHANGED <<opts, outcome, interval>>
          [] d.d = "throw" -> /\ outcome' = RedirectError(outcome)
                              /\ pc' = "catch"
                              /\ UNCHANGED <<opts, interval>>
          [] d.d = "wait"  -> /\ interval' = d.interval
                              /\ pc' = "wait"
                              /\ UNCHANGED <<opts, outcome>>
  /\ UNCHANGED <<other, impl, options, request, method, safe, init, url, signal, i, calls, trace, next, result>>

\* if (await _shouldNotRetry(i, init, opts, resp)) return resp;
M_Decide ==
  /\ impl = "main" /\ pc = "decide"
  /\ LET d == _shouldNotRetry(i, signal, opts, outcome)
     IN CASE d.d = "stop"  -> /\ pc' = "main"
                              /\ UNCHANGED <<opts, outcome, interval>>
          [] d.d = "throw" -> /\ opts' = [opts EXCEPT !.maxAttempts = 0]
                              /\ outcome' = RedirectError(outcome)
                              /\ pc' = "catch"
                              /\ UNCHANGED interval
          [] d.d = "wait"  -> /\ interval' = d.interval
                              /\ pc' = "wait"
                              /\ UNCHANGED <<opts, outcome>>
  /\ UNCHANGED <<other, impl, options, request, method, safe, init, url, signal, i, calls, trace, next, result>>

\* mutant: every thrown error is rethrown at once
M_Catch_rethrow ==
  /\ impl = "main" /\ pc = "catch"
  /\ Finish(outcome)
  /\ UNCHANGED <<other, impl, options, request, method, safe, opts, init, url, signal, i,
                 outcome, interval, calls, trace, next>>

\* mutant: the sentinel message is not looked at
M_Catch_noSentinel ==
  /\ impl = "main" /\ pc = "catch"
  /\ LET d == _shouldNotRetry(i, signal, opts, NoOutcome)
     IN IF d.d = "stop"
        THEN Finish(outcome) /\ UNCHANGED interval
        ELSE /\ interval' = d.interval
             /\ pc' = "wait"
             /\ UNCHANGED result
  /\ UNCHANGED <<other, impl, options, request, method, safe, opts, init, url, signal, i, outcome, calls, trace, next>>

\* catch (e) { if (sentinel) throw e; if (await _shouldNotRetry(i, init, opts)) throw e; continue; }
M_Catch ==
  /\ impl = "main" /\ pc = "catch"
  /\ IF outcome.message = NO_RETRY_ERROR
     THEN Finish(outcome) /\ UNCHANGED interval
     ELSE LET d == _shouldNotRetry(i, signal, opts, NoOutcome)
          IN IF d.d = "stop"
             THEN Finish(outcome) /\ UNCHANGED interval
             ELSE /\ interval' = d.interval
                  /\ pc' = "wait"
                  /\ UNCHANGED result
  /\ UNCHANGED <<other, impl, options, request, method, safe, opts, init, url, signal, i, outcome, calls, trace, next>>

\* mutant: after the wait the same outcome is decided again, the index stays
M_Resume_again ==
  /\ impl = "main" /\ pc = "wait"
  /\ pc' = IF outcome.kind = "resp" THEN "decide" ELSE "catch"
  /\ UNCHANGED <<other, impl, options, request, method, safe, opts, init, url, signal, i,
                 outcome, interval, calls, trace, next, result>>

\* the wait inside _shouldNotRetry is over: it returns false, the loop continues
M_Resume ==
  /\ impl = "main" /\ pc = "wait"
  /\ LET h == IF outcome.kind = "resp" THEN _handleRedirectResponse(url, init, outcome)
              ELSE [url |-> url, init |-> init]
     IN url' = h.url /\ init' = h.init
  /\ i' = i + 1
  /\ pc' = LoopHead(i + 1, opts)
  /\ UNCHANGED <<other, impl, options, request, method, safe, opts, signal, outcome, interval, calls, trace, next, result>>

\* return await _fetchWithJitter(url, init, opts) after the loop
M_Tail ==
  /\ impl = "main" /\ pc = "tail"
  /\ \E t \in Transport(signal) :
       /\ outcome' = t.out
       /\ signal' = t.sig
       /\ trace' = Append(trace, t.out)
       /\ IF t.out.kind = "resp" THEN pc' = "main" /\ UNCHANGED result ELSE Finish(t.out)
  /\ calls' = calls + 1
  /\ UNCHANGED <<other, impl, options, request, method, safe, opts, init, url, i, interval, next>>

\* mutant: _main returns the response whatever its status
M_Main_noThrow ==
  /\ impl = "main" /\ pc = "main"
  /\ IF method.parse = "none" THEN Finish(outcome)
     ELSE \E r \in _parseBody(outcome, method.parse) : Finish(r)
  /\ UNCHANGED <<other, impl, options, request, method, safe, opts, init, url, signal, i, outcome, interval, calls, trace, next>>

\* _main: if (!resp.ok && !opts.native) throw HTTPStatusError;
\*        return parse ? _parseBody(resp, parse) : resp
M_Main ==
  /\ impl = "main" /\ pc = "main"
  /\ IF ~ok(outcome) /\ ~opts.native THEN Finish(HTTPStatusError(outcome))
     ELSE IF method.parse = "none" THEN Finish(outcome)
     ELSE \E r \in _parseBody(outcome, method.parse) : Finish(r)
  /\ UNCHANGED <<other, impl, options, request, method, safe, opts, init, url, signal, i, outcome, interval, calls, trace, next>>

\* the call's signal (caller abort or timeout) fires while the loop is suspended in a wait
Abort ==
  /\ pc = "wait" /\ interval > 0 /\ signal = "live"
  /\ signal' \in AbortReasons
  /\ UNCHANGED <<other, impl, options, request, method, safe, opts, init, url, i, pc, outcome, interval, calls, trace, next, result>>

(************************ the call: part_006 *******************************)
\* Request.clone() throws a TypeError when the body is disturbed (was read or cancelled)
Unusable(body) == body \in {"used", "cancelled"}

\* creq(true) in the finally block: await next?.body?.cancel()
Cancel(body) == IF body = "fresh" THEN "cancelled" ELSE body

\* the end of a loop iteration that continues: finally, i++, the loop test, and
\* throw new Error() behind the loop
Continue_p6 ==
  /\ next' = Cancel(next)
  /\ i' = i + 1
  /\ IF i + 1 < opts.zmaxAttempts
     THEN pc' = "fetch" /\ UNCHANGED result
     ELSE pc' = "done" /\ result' = Err("Error")

\* the end of a loop iteration that returns or throws: finally, then the result,
\* seen through the method of the returned promise the caller used
Return_p6(r) ==
  /\ next' = Cancel(next)
  /\ pc' = "done"
  /\ result' \in _assignToPromise(r, method)
  /\ UNCHANGED i

\* const resp = await _fetchWithJitter(await creq(), init, opts)
F_Attempt ==
  /\ impl = "p006" /\ pc = "fetch"
  /\ IF next # "undef" /\ Unusable(next)
     THEN /\ outcome' = Err("TypeError")
          /\ pc' = "catch"
          /\ UNCHANGED <<signal, trace, calls, next>>
     ELSE /\ next' = IF next = "undef"
                     THEN (IF request.hasBody THEN "fresh" ELSE "nobody")
                     ELSE next
          /\ \E t \in Transport(signal) :
               /\ outcome' = t.out
               /\ signal' = t.sig
               /\ trace' = Append(trace, t.out)
               /\ pc' = IF t.out.kind = "resp" THEN "decide" ELSE "catch"
          /\ calls' = calls + 1
  /\ UNCHANGED <<other, impl, options, request, method, safe, opts, init, url, i, interval, result>>

\* if (await _shouldRetry(i, opts, resp)) continue; if (error status) throw ...; return resp
F_Decide ==
  /\ impl = "p006" /\ pc = "decide"
  /\ LET d == _shouldRetry(i, opts, outcome)
     IN IF d.d = "wait"
        THEN /\ interval' = d.interval
             /\ pc' = "wait"
             /\ UNCHANGED <<outcome, next, i, result>>
        ELSE IF d.d = "retry"
        THEN Continue_p6 /\ UNCHANGED <<outcome, interval>>
        ELSE IF _isHttpError(outcome.status) /\ ~opts.znative
        THEN /\ outcome' = HTTPStatusError(outcome)
             /\ pc' = "catch"
             /\ UNCHANGED <<interval, next, i, result>>
        ELSE Return_p6(outcome) /\ UNCHANGED <<outcome, interval>>
  /\ UNCHANGED <<other, impl, options, request, method, safe, opts, init, url, signal, calls, trace>>

\* mutant: the catch block returns null in safe mode before it asks for a retry
F_Catch_safeFirst ==
  /\ impl = "p006" /\ pc = "catch"
  /\ LET d == IF safe THEN Decision("stop", 0) ELSE _shouldRetry(i, opts, outcome)
     IN IF d.d = "wait"
        THEN /\ interval' = d.interval
             /\ pc' = "wait"
             /\ UNCHANGED <<next, i, result>>
        ELSE IF d.d = "retry"
        THEN Continue_p6 /\ UNCHANGED interval
        ELSE Return_p6(IF safe THEN Null ELSE outcome) /\ UNCHANGED interval
  /\ UNCHANGED <<other, impl, options, request, method, safe, opts, init, url, signal, outcome, calls, trace>>

\* catch (e) { if (await _shouldRetry(i, opts, e)) continue; if (safe) return null; throw e; }
F_Catch ==
  /\ impl = "p006" /\ pc = "catch"
  /\ LET d == _shouldRetry(i, opts, outcome)
     IN IF d.d = "wait"
        THEN /\ interval' = d.interval
             /\ pc' = "wait"
             /\ UNCHANGED <<next, i, result>>
        ELSE IF d.d = "retry"
        THEN Continue_p6 /\ UNCHANGED interval
        ELSE Return_p6(IF safe THEN Null ELSE outcome) /\ UNCHANGED interval
  /\ UNCHANGED <<other, impl, options, request, method, safe, opts, init, url, signal, outcome, calls, trace>>

\* the wait inside _shouldRetry is over: it returns true, the loop continues
F_Resume ==
  /\ impl = "p006" /\ pc = "wait"
  /\ Continue_p6
  /\ UNCHANGED <<other, impl, options, request, method, safe, opts, init, url, signal, outcome, interval, calls, trace>>

Next ==
  \/ M_Attempt \/ M_Decide \/ M_Catch \/ M_Resume \/ M_Tail \/ M_Main
  \/ F_Attempt \/ F_Decide \/ F_Catch \/ F_Resume
  \/ Abort

Spec == Init /\ [][Next]_vars

\* a step of the call itself: every transport call and every wait the loop
\* awaits completes, and the code that follows the await runs
ProgramStep ==
  \/ M_Attempt \/ M_Decide \/ M_Catch \/ M_Resume \/ M_Tail \/ M_Main
  \/ F_Attempt \/ F_Decide \/ F_Catch \/ F_Resume

SpecLive == Init /\ [][Next]_vars /\ WF_vars(ProgramStep)

(******************** the entry points of the API ***************************)
\* retry: false, the default policy, and the default policy cut to 2 attempts
ApiPolicies(rs) ==
  {r \in rs : r.off \/ (/\ r.maxAttempts \in {Undef, Some(2)}
                        /\ \A f \in DOMAIN r \ {"off", "maxAttempts"} : r[f] = Undef)}

\* any function or method of the API is called, with one of these policies
InitApi ==
  /\ Start([main |-> Functions \cup fy, p006 |-> Functions \cup Methods_p6],
           ApiPolicies(RetryOptions), ApiPolicies(RetryOptions_p6))
  /\ other = Idle

SpecApi == InitApi /\ [][Next]_vars

(******************** the backoff computation alone *************************)
\* interval and maxInterval a caller passes, in milliseconds (missing: the default)
BackoffRetryOptions ==
  {[off |-> FALSE, maxAttempts |-> Undef, interval |-> b, maxInterval |-> c,
    retryAfter |-> Undef, retryOnTimeout |-> Undef, idempotentOnly |-> Undef,
    statusCodes |-> Undef, respectHeaders |-> Undef] :
      b \in OptNum({1000, 2000, 5000}), c \in OptNum({1000, 10000, 100000})}

InitBackoff ==
  /\ impl \in {"main", "p006"}
  /\ request = [method |-> "GET", hasBody |-> FALSE]
  /\ method = Method("fetchy", "fetchy", "none")
  /\ safe = FALSE
  /\ \E r \in BackoffRetryOptions :
       options = IF impl = "main"
                 THEN [retry |-> r, native |-> Undef, redirect |-> Undef,
                       timeout |-> Undef, delay |-> Undef]
                 ELSE [retry |-> r, native |-> Undef, timeout |-> Undef, jitter |-> Undef]
  /\ init = _getRequestInit(request, options)
  /\ opts = IF impl = "main" THEN _getOptions(options) ELSE _getOptions_p6(init, options)
  /\ url = "original"
  /\ signal = "live"
  /\ i = 0
  /\ pc = "backoff"
  /\ outcome = NoOutcome
  /\ interval = 0
  /\ calls = 0
  /\ trace = <<>>
  /\ next = "undef"
  /\ result = NoOutcome
  /\ other = Idle

\* _getNextInterval(count, opts) without a response, for the next count
Backoff ==
  /\ pc = "backoff" /\ i <= MaxCount
  /\ interval' = IF impl = "main" THEN _getNextInterval(i, opts, NoOutcome)
                 ELSE _getNextInterval_p6(i, opts, NoHdrs)
  /\ i' = i + 1
  /\ UNCHANGED <<other, impl, options, request, method, safe, opts, init, url, signal, pc, outcome,
                 calls, trace, next, result>>

NextBackoff == Backoff

SpecBackoff == InitBackoff /\ [][NextBackoff]_vars

(******************** the effective policy alone ***************************)
\* maxAttempts, interval and maxInterval a caller passes: missing, negative,
\* zero, below the minimum, the minimum, above it (intervals in milliseconds)
PolicyRetryOptions ==
  {[off |-> TRUE]}
  \cup {[off |-> FALSE, maxAttempts |-> a, interval |-> b, maxInterval |-> c,
         retryAfter |-> Undef, retryOnTimeout |-> Undef, idempotentOnly |-> Undef,
         statusCodes |-> Undef, respectHeaders |-> Undef] :
          a \in OptNum({-1, 0, 1, 5}), b \in OptNum({-1000, 0, 5, 10, 2000}),
          c \in OptNum({-1000, 0, 500, 1000, 60000})}

InitPolicy ==
  /\ impl \in {"main", "p006"}
  /\ request = [method |-> "GET", hasBody |-> FALSE]
  /\ method = Method("fetchy", "fetchy", "none")
  /\ safe = FALSE
  /\ \E r \in PolicyRetryOptions :
       options = IF impl = "main"
                 THEN [retry |-> r, native |-> Undef, redirect |-> Undef,
                       timeout |-> Undef, delay |-> Undef]
                 ELSE [retry |-> r, native |-> Undef, timeout |-> Undef, jitter |-> Undef]
  /\ init = _getRequestInit(request, options)
  /\ opts = IF impl = "main" THEN _DEFAULT ELSE _DEFAULT_p6
  /\ url = "original"
  /\ signal = "live"
  /\ i = 0
  /\ pc = "policy"
  /\ outcome = NoOutcome
  /\ interval = 0
  /\ calls = 0
  /\ trace = <<>>
  /\ next = "undef"
  /\ result = NoOutcome
  /\ other = Idle

\* _getOptions(options) of main.ts, _getOptions(init, url, options) of part_006
Policy ==
  /\ pc = "policy"
  /\ opts' = IF impl = "main" THEN _getOptions(options) ELSE _getOptions_p6(init, options)
  /\ pc' = "built"
  /\ UNCHANGED <<other, impl, options, request, method, safe, init, url, signal, i, outcome,
                 interval, calls, trace, next, result>>

NextPolicy == Policy

SpecPolicy == InitPolicy /\ [][NextPolicy]_vars

(********************* the retry headers alone ******************************)
\* the orders of respectHeaders a caller passes (missing: the default order)
HeaderOrders ==
  OptNum({<<"ratelimit-reset", "retry-after">>,
          <<"x-ratelimit-reset", "ratelimit-reset", "retry-after">>})

\* a value of a retry header: none, a number of seconds, or an unparseable text
HeaderValues == {Absent, IntHdr(10), IntHdr(20), IntHdr(30), BadHdr}

\* part_006 holds a 500 response with any combination of retry headers
InitHeaders ==
  /\ impl = "p006"
  /\ request = [method |-> "GET", hasBody |-> FALSE]
  /\ method = Method("fetchy", "fetchy", "none")
  /\ safe = FALSE
  /\ \E h \in HeaderOrders :
       options = [retry |-> [off |-> FALSE, maxAttempts |-> Undef, interval |-> Undef,
                             maxInterval |-> Undef, retryOnTimeout |-> Undef,
                             idempotentOnly |-> Undef, statusCodes |-> Undef,
                             respectHeaders |-> h],
                  native |-> Undef, timeout |-> Undef, jitter |-> Undef]
  /\ init = _getRequestInit(request, options)
  /\ opts = _getOptions_p6(init, options)
  /\ url = "original"
  /\ signal = "live"
  /\ i = 0
  /\ pc = "headers"
  /\ outcome \in {Resp(500, h, FALSE) : h \in [HeaderNames -> HeaderValues]}
  /\ interval = 0
  /\ calls = 1
  /\ trace = <<outcome>>
  /\ next = "nobody"
  /\ result = NoOutcome
  /\ other = Idle

\* const interval = _getNextInterval(count, opts, r.headers) in _shouldRetry
Respect ==
  /\ pc = "headers"
  /\ interval' = _getNextInterval_p6(i, opts, outcome.hdrs)
  /\ pc' = "respected"
  /\ UNCHANGED <<other, impl, options, request, method, safe, opts, init, url, signal, i,
                 outcome, calls, trace, next, result>>

NextHeaders == Respect

SpecHeaders == InitHeaders /\ [][NextHeaders]_vars

(************************ two concurrent calls ******************************)
\* what one call owns: the objects _main builds for it (opts, init, the clone
\* holder next, its signal) and the locals of its loop
Cur ==
  [request |-> request, method |-> method, safe |-> safe, opts |-> opts, init |-> init,
   url |-> url, signal |-> signal, i |-> i, pc |-> pc, outcome |-> outcome,
   interval |-> interval, calls |-> calls, trace |-> trace, next |-> next, result |-> result]

\* retry: false, and the default policy cut to 2 attempts
TwoPolicies(rs) ==
  {r \in rs : r.off \/ (/\ r.maxAttempts = Some(2)
                        /\ \A f \in DOMAIN r \ {"off", "maxAttempts"} : r[f] = Undef)}

\* two calls of fetchy with the same options object (the same fy instance), each
\* with a POST request of its own; _main has built opts and init for each
InitTwo ==
  /\ Start([main |-> {Method("fetchy", "fetchy", "none")},
            p006 |-> {Method("fetchy", "fetchy", "none")}],
           TwoPolicies(RetryOptions), TwoPolicies(RetryOptions_p6))
  /\ request.method = "POST" /\ (impl = "p006" => request.hasBody)
  /\ options.native = Undef
  /\ impl = "main" => options.redirect \in {Undef, Some("error")}
  /\ other = Cur

\* mutant: the two calls use one opts object
Switch_sharedOpts ==
  /\ other' = Cur
  /\ request' = other.request /\ method' = other.method /\ safe' = other.safe
  /\ init' = other.init /\ url' = other.url /\ signal' = other.signal
  /\ i' = other.i /\ pc' = other.pc /\ outcome' = other.outcome
  /\ interval' = other.interval /\ calls' = other.calls /\ trace' = other.trace
  /\ next' = other.next /\ result' = other.result
  /\ UNCHANGED <<impl, options, opts>>

\* the running call is suspended in an await (or has ended) and the event loop
\* runs the other call
Switch ==
  /\ other' = Cur
  /\ request' = other.request /\ method' = other.method /\ safe' = other.safe
  /\ opts' = other.opts /\ init' = other.init /\ url' = other.url /\ signal' = other.signal
  /\ i' = other.i /\ pc' = other.pc /\ outcome' = other.outcome
  /\ interval' = other.interval /\ calls' = other.calls /\ trace' = other.trace
  /\ next' = other.next /\ result' = other.result
  /\ UNCHANGED <<impl, options>>

NextTwo == Next \/ Switch

SpecTwo == InitTwo /\ [][NextTwo]_vars

(**************** a throwing run and a safe run, side by side ****************)
\* the policies of the paired runs: retry off, or at most 2 attempts or the default 3,
\* with retryOnTimeout and idempotentOnly as the caller likes
PairPolicies ==
  {r \in RetryOptions_p6 :
     r.off \/ (/\ r.maxAttempts \in {Undef, Some(2)}
               /\ r.interval = Undef /\ r.maxInterval = Undef /\ r.statusCodes = Undef)}

IsPrefix(p, q) == Len(p) <= Len(q) /\ \A k \in 1..Len(p) : p[k] = q[k]

\* _makeFetchyResponse(req, init, opts, false) and _makeFetchyResponse(req, init,
\* opts, true) for equal requests and options: the throwing run is the running one
InitPair ==
  /\ Start([main |-> {}, p006 |-> {Method("fetchy", "fetchy", "none")}], {}, PairPolicies)
  /\ options.native = Undef
  /\ other = [Cur EXCEPT !.safe = TRUE, !.method = Method("sfetchy", "sfetchy", "none")]

\* a step of _fetchWithRetry of part_006, or the signal firing during its wait
Next_p6 == F_Attempt \/ F_Decide \/ F_Catch \/ F_Resume \/ Abort

\* the throwing run takes a step, the transport answers as it likes
Throwing == ~safe /\ Next_p6

\* the safe run takes a step, the transport answers it what it answered the throwing run
Safe == safe /\ Next_p6 /\ IsPrefix(trace', other.trace)

NextPair == Throwing \/ Safe \/ Switch

SpecPair == InitPair /\ [][NextPair]_vars

(***************************** properties **********************************)
\* the policy as constructed for the call (main.ts later overwrites opts.maxAttempts)
MaxAttempts0 == IF impl = "main" THEN _getOptions(options).maxAttempts ELSE opts.zmaxAttempts
Native == IF impl = "main" THEN opts.native ELSE opts.znative
IsResp(x) == x.kind = "resp"
Is500(x) == IsResp(x) /\ x.status = 500
Plain500(x) == Is500(x) /\ x.hdrs = NoHdrs
Is3xx(x) == IsResp(x) /\ x.status >= 300 /\ x.status <= 399
Last(q) == q[Len(q)]

\* C1: with maxAttempts = n >= 1, one call of the retry loop never performs more
\* than n transport calls, whatever the transport answers (both implementations).
C1_AtMostMaxAttempts == MaxAttempts0 >= 1 => calls <= MaxAttempts0

C1_Witness ==
  /\ pc = "done" /\ impl = "main" /\ MaxAttempts0 = 3 /\ calls = 3
  /\ Last(trace) = Err("TypeError")

\* C2: when the first transport call is answered with a 2xx response, no second
\* transport call is made and the call returns exactly that response.
C2_ImmediateSuccess ==
  (Len(trace) >= 1 /\ IsResp(trace[1]) /\ ok(trace[1]))
    => /\ calls = 1
       /\ pc = "done" => result = trace[1]

C2_Witness ==
  /\ pc = "done" /\ impl = "p006" /\ MaxAttempts0 = 3 /\ calls = 1
  /\ trace = <<Resp(200, NoHdrs, FALSE)>> /\ result = trace[1]

C4_ExhaustionThrows ==
  (/\ pc = "done" /\ ~safe /\ ~Native /\ MaxAttempts0 = 3
   /\ impl = "p006" => (500 \in opts.zstatusCodes /\ ~opts.znoIdempotent)
   /\ Len(trace) >= 1 /\ \A j \in 1..Len(trace) : Plain500(trace[j]))
    => /\ calls = 3
       /\ result = HTTPStatusError(trace[3])

\* C5 as stated: always 500, maxAttempts = 3, passthrough on: exactly 3 transport
\* calls and the last 500 response is the result.
C5_Original ==
  (/\ pc = "done" /\ Native /\ MaxAttempts0 = 3
   /\ Len(trace) >= 1 /\ \A j \in 1..Len(trace) : Is500(trace[j]))
    => /\ calls = 3
       /\ result = Last(trace)

\* C5 amended: with passthrough on and maxAttempts = 3, a 500 answer to the first
\* transport call is the result of the call, after exactly 1 transport call.
C5_NativeNoRetry ==
  (Native /\ MaxAttempts0 = 3 /\ Len(trace) >= 1 /\ Is500(trace[1]))
    => /\ calls = 1
       /\ pc = "done" => result = trace[1]

C5_Witness ==
  /\ pc = "done" /\ impl = "main" /\ Native /\ MaxAttempts0 = 3 /\ calls = 1
  /\ Is500(trace[1]) /\ result = trace[1]

\* C6: in passthrough mode no transport call follows a non-OK response, that
\* response is returned as it is (after 1 call when it answers the first call),
\* and no HTTPStatusError is raised, for every maxAttempts.
C6_NativePassthrough ==
  Native =>
    /\ \A j \in 1..Len(trace) :
         (IsResp(trace[j]) /\ ~ok(trace[j]))
           => /\ j = Len(trace) /\ calls = j
              /\ pc = "done" => result = trace[j]
    /\ ~(result.kind = "err" /\ result.name = "HTTPStatusError")

C6_Witness ==
  /\ pc = "done" /\ impl = "p006" /\ Native /\ MaxAttempts0 = 3 /\ calls = 1
  /\ trace = <<Resp(404, NoHdrs, FALSE)>> /\ result = trace[1]

\* C7: in part_006, when the transport rejects the first call with an error that
\* is not a TimeoutError, exactly 1 transport call is made and the call ends with
\* that error (null in safe mode), for every maxAttempts.
C7_NetworkErrorNotRetried ==
  (/\ impl = "p006" /\ Len(trace) >= 1
   /\ trace[1].kind = "err" /\ trace[1].name # "TimeoutError")
    => /\ calls = 1
       /\ pc = "done" => result = (IF safe THEN Null ELSE trace[1])

C7_Witness ==
  /\ pc = "done" /\ impl = "p006" /\ ~safe /\ MaxAttempts0 = 3 /\ calls = 1
  /\ trace = <<Err("TypeError")>> /\ result = Err("TypeError")

\* C8: with retry: false exactly 1 transport call is made, whatever its outcome.
C8_RetryFalseOneCall ==
  options.retry.off => /\ calls <= 1
                       /\ pc = "done" => calls = 1

C8_Witness ==
  /\ pc = "done" /\ impl = "main" /\ options.retry.off /\ calls = 1
  /\ trace = <<Resp(500, NoHdrs, FALSE)>>
  /\ result = IF safe THEN Null ELSE HTTPStatusError(trace[1])

\* C9: in main.ts with redirect "error", a 3xx answer to the first transport call
\* is never followed by another transport call, for every retry policy.
C9_RedirectErrorOneCall ==
  (/\ impl = "main" /\ opts.redirect = "error"
   /\ Len(trace) >= 1 /\ Is3xx(trace[1]))
    => calls = 1

C9_Witness ==
  /\ pc = "done" /\ impl = "main" /\ opts.redirect = "error" /\ ~Native /\ ~safe
  /\ MaxAttempts0 = 3 /\ calls = 1 /\ trace = <<Resp(301, NoHdrs, FALSE)>>
  /\ result = RedirectError(trace[1])

\* C10: in main.ts with redirect "error", a call that received a 3xx response
\* ends with a RedirectError carrying that status, at every attempt index and
\* with retry disabled.  (Stated for throwing mode with passthrough off.)
C10_RedirectAlwaysRedirectError ==
  (/\ pc = "done" /\ impl = "main" /\ opts.redirect = "error" /\ ~Native /\ ~safe)
    => \A j \in 1..Len(trace) : Is3xx(trace[j]) => result = RedirectError(trace[j])

\* the policy values the retry decision works with
BaseInterval == IF impl = "main" THEN opts.interval ELSE opts.zinterval
MaxInterval == IF impl = "main" THEN opts.maxInterval ELSE opts.zmaxInterval
Retryable(x) == IsResp(x) /\ x.status \in opts.zstatusCodes
IsTimeout(x) == x.kind = "err" /\ x.name = "TimeoutError"
SafeMethods == {"fy.stext", "fy.sjson", "fy.sbytes", "fy.sblob", "fy.sbuffer"}

\* C11: in part_006 with idempotentOnly = true, a POST request answered with a
\* retryable status makes exactly 1 transport call, while a GET request answered
\* with retryable statuses only is retried up to maxAttempts transport calls.
C11_IdempotentOnly ==
  (impl = "p006" /\ ~options.retry.off /\ options.retry.idempotentOnly = Some(TRUE))
    => /\ (request.method = "POST" /\ Len(trace) >= 1 /\ Retryable(trace[1]))
            => calls = 1
       /\ (/\ request.method = "GET" /\ pc = "done" /\ ~Native
           /\ \A j \in 1..Len(trace) : Plain500(trace[j]) /\ Retryable(trace[j]))
            => calls = MaxAttempts0

C11_Witness ==
  /\ pc = "done" /\ impl = "p006" /\ ~options.retry.off
  /\ options.retry.idempotentOnly = Some(TRUE) /\ request.method = "POST"
  /\ MaxAttempts0 = 3 /\ ~Native /\ ~safe /\ calls = 1
  /\ trace = <<Resp(500, NoHdrs, FALSE)>> /\ result = HTTPStatusError(trace[1])

\* C12: in main.ts a transport error whose message is NO_RETRY_ERROR ends the
\* call at once: it is the last transport call, no backoff wait follows it, and
\* it is what the call reports, for every policy and attempt index.
C12_SentinelNotRetried ==
  impl = "main" =>
    \A j \in 1..Len(trace) :
      trace[j] = SentinelErr
        => /\ j = Len(trace) /\ calls = j
           /\ pc \in {"catch", "done"}
           /\ pc = "done" => result = (IF safe THEN Null ELSE SentinelErr)

C12_Witness ==
  /\ pc = "done" /\ impl = "main" /\ ~safe /\ MaxAttempts0 = 3 /\ calls = 2
  /\ trace = <<Resp(500, NoHdrs, FALSE), SentinelErr>> /\ result = SentinelErr

C14_SafeMethodsReturnNull ==
  (pc = "done" /\ impl = "main" /\ method.name \in SafeMethods)
    => result.kind # "err"

C16_TimeoutRetry ==
  (/\ pc = "done" /\ impl = "p006" /\ ~safe /\ ~opts.znoIdempotent
   /\ Len(trace) >= 1 /\ \A j \in 1..Len(trace) : IsTimeout(trace[j]))
    => /\ calls = (IF opts.zonTimeout THEN MaxAttempts0 ELSE 1)
       /\ result = Err("TimeoutError")

\* C17: once the signal of the call has fired, no transport call is started.
C17_NoCallAfterSignal == [][signal # "live" => calls' = calls]_vars

\* C18: while the loop waits after a response that carries a retry header of v
\* seconds, header-respect being on, the interval waited is max(v, interval).
C18_HeaderInterval ==
  (/\ pc = "wait" /\ IsResp(outcome) /\ outcome.hdrs["retry-after"].t = "int"
   /\ impl = "main" => opts.retryAfter
   /\ impl = "p006" => (\E k \in 1..Len(opts.zrespects) : opts.zrespects[k] = "retry-after"))
    => interval = Max(outcome.hdrs["retry-after"].v * 1000, BaseInterval)

C18_Witness ==
  /\ pc = "wait" /\ impl = "main" /\ opts.retryAfter /\ BaseInterval = 10
  /\ outcome = Resp(500, RetryAfterHdr(IntHdr(SmallRetryAfter)), FALSE)
  /\ interval = SmallRetryAfter * 1000

\* C19: the loop never waits longer than maxInterval, and an answer whose retry
\* header asks for more than maxInterval is the last transport call: the call
\* ends with it without waiting.
C19_NoWaitBeyondMax ==
  /\ pc = "wait" => interval <= MaxInterval
  /\ \A j \in 1..Len(trace) :
       (/\ IsResp(trace[j]) /\ trace[j].hdrs["retry-after"].t = "int"
        /\ impl = "main" => opts.retryAfter
        /\ Max(trace[j].hdrs["retry-after"].v * 1000, BaseInterval) > MaxInterval)
         => /\ j = Len(trace) /\ calls = j /\ pc # "wait"
            /\ (pc = "done" /\ ~safe /\ ~Native) => result = HTTPStatusError(trace[j])

C19_Witness ==
  /\ pc = "done" /\ impl = "p006" /\ ~safe /\ ~Native /\ MaxAttempts0 = 3 /\ calls = 1
  /\ opts.zmaxInterval = 30000 /\ 500 \in opts.zstatusCodes /\ ~opts.znoIdempotent
  /\ trace = <<Resp(500, RetryAfterHdr(IntHdr(60)), FALSE)>>
  /\ result = HTTPStatusError(trace[1])

\* C20: with interval = 3 s and maxInterval >= 1 s, the intervals computed
\* without a retry header for the counts 0, 1, 2, ... never decrease and never
\* exceed maxInterval.
C20_BackoffMonotone ==
  [][(BaseInterval = 3000 /\ MaxInterval >= 1000)
       => (interval' >= interval /\ interval' <= MaxInterval)]_vars

C20_Witness ==
  /\ pc = "backoff" /\ impl = "main" /\ BaseInterval = 3000 /\ MaxInterval = 30000
  /\ i = MaxCount + 1 /\ interval = MaxInterval

\* C21: in main.ts the interval computed without a retry header for the
\* attempt index i is min(max(1, baseInterval)^i, maxInterval) seconds; a base
\* of 3 s gives 1, 3, 9 and 27 s for the indexes 0..3, until the cap applies.
C21_MainExponential ==
  (pc = "backoff" /\ impl = "main" /\ i >= 1)
    => /\ interval = Min(1000 * Pow(Max(1, BaseInterval \div 1000), i - 1), MaxInterval)
       /\ (BaseInterval = 3000 /\ i <= 4)
            => interval = Min(<<1000, 3000, 9000, 27000>>[i], MaxInterval)

C21_Witness ==
  /\ pc = "backoff" /\ impl = "main" /\ BaseInterval = 3000 /\ MaxInterval = 100000
  /\ i = 4 /\ interval = 27000

\* C22: in part_006 the interval computed without a retry header for the
\* attempt index i is min(interval * 2^i, maxInterval); an interval of 3 s
\* gives 3, 6, 12 and 24 s for the indexes 0..3, until the cap applies.
C22_P6Doubling ==
  (pc = "backoff" /\ impl = "p006" /\ i >= 1)
    => /\ interval = Min(BaseInterval * Pow(2, i - 1), MaxInterval)
       /\ (BaseInterval = 3000 /\ i <= 4)
            => interval = Min(<<3000, 6000, 12000, 24000>>[i], MaxInterval)

C22_Witness ==
  /\ pc = "backoff" /\ impl = "p006" /\ BaseInterval = 3000 /\ MaxInterval = 100000
  /\ i = 4 /\ interval = 24000

\* the value the policy holds for a number a caller passes
Corrected_p6(dflt, num, least) ==
  IF num = Undef \/ num[1] < 0 THEN dflt ELSE IF num[1] < least THEN least ELSE num[1]

\* C23: the effective policy of part_006 has maxAttempts >= 1, interval >=
\* 0.01 s and maxInterval >= 1 s; a missing or negative value becomes the
\* default (3, 3 s, 30 s) and a value below the minimum is raised to it.
C23_PolicyMinimums ==
  (pc = "built" /\ impl = "p006")
    => /\ opts.zmaxAttempts >= 1 /\ opts.zinterval >= 10 /\ opts.zmaxInterval >= 1000
       /\ ~options.retry.off
            => /\ opts.zmaxAttempts = Corrected_p6(3, options.retry.maxAttempts, 1)
               /\ opts.zinterval = Corrected_p6(3000, options.retry.interval, 10)
               /\ opts.zmaxInterval = Corrected_p6(30000, options.retry.maxInterval, 1000)

C23_Witness ==
  /\ pc = "built" /\ impl = "p006" /\ ~options.retry.off
  /\ options.retry.maxAttempts = Some(0) /\ opts.zmaxAttempts = 1
  /\ options.retry.interval = Some(-1000) /\ opts.zinterval = 3000
  /\ options.retry.maxInterval = Some(500) /\ opts.zmaxInterval = 1000

\* what a call's objects hold follows from the shared options and that call's
\* own transport outcomes
OwnState(c) ==
  /\ impl = "main" =>
       /\ c.opts.maxAttempts # _getOptions(options).maxAttempts
            => (/\ c.opts.maxAttempts = 0 /\ c.trace # <<>>
                /\ c.outcome = RedirectError(Last(c.trace)))
       /\ [c.opts EXCEPT !.maxAttempts = 0] = [_getOptions(options) EXCEPT !.maxAttempts = 0]
       /\ c.init.method # c.request.method
            => (/\ c.init.method = "GET"
                /\ \E j \in 1..Len(c.trace) :
                     IsResp(c.trace[j]) /\ c.trace[j].status = 303 /\ c.trace[j].redirected)
  /\ impl = "p006" =>
       /\ c.opts = _getOptions_p6(c.init, options)
       /\ c.init = _getRequestInit(c.request, options)
       /\ c.next # "undef" => c.calls >= 1
       /\ c.next = "cancelled" => (c.i >= 1 \/ c.pc = "done")

TimedOut ==
  IF impl = "main" THEN signal = "TimeoutError"
  ELSE \E j \in 1..Len(trace) : IsTimeout(trace[j])

Rejected(e) == IF safe THEN Null ELSE e

\* part_006: the timeout of attempt j ends the call
EndsCall(j) == ~opts.zonTimeout \/ opts.znoIdempotent \/ j >= opts.zmaxAttempts

C26_Terminates ==
  <>(pc = "done" /\ (MaxAttempts0 >= 1 => calls <= MaxAttempts0))

C26_Witness ==
  /\ pc = "done" /\ impl = "main" /\ opts.redirect = "follow" /\ ~opts.native
  /\ MaxAttempts0 = 3 /\ calls = 3
  /\ \A j \in 1..3 : trace[j] = Resp(303, NoHdrs, TRUE)
  /\ result = HTTPStatusError(trace[3])


\* the statuses the spec names as retryable by default
DefaultStatusCodes == {500, 502, 503, 504, 408, 429}

\* main.ts: trace[j] is a response that could be retried: attempts remain,
\* passthrough is off and the interval computed for it is within maxInterval
MayRetry(j) ==
  /\ impl = "main" /\ j \in 1..Len(trace) /\ IsResp(trace[j])
  /\ j < MaxAttempts0 /\ ~opts.native
  /\ _getNextInterval(j - 1, opts, trace[j]) <= opts.maxInterval

\* C27 as stated: in main.ts a response whose status is one of 500, 502, 503,
\* 504, 408, 429 is retried whenever attempts remain, passthrough is off and
\* the computed interval is within maxInterval.
C27_Original ==
  \A j \in 1..Len(trace) :
    (MayRetry(j) /\ trace[j].status \in DefaultStatusCodes /\ pc = "done")
      => Len(trace) > j

\* C27: in main.ts, under those conditions, a 5xx response is retried, and a 4xx
\* response (408 and 429 too) is never retried: the call ends on it with the
\* HTTPStatusError.
C27_RetriedStatuses ==
  \A j \in 1..Len(trace) :
    MayRetry(j) =>
      /\ (trace[j].status >= 500 /\ j = Len(trace)) => pc \in {"decide", "wait", "fetch"}
      /\ (trace[j].status >= 400 /\ trace[j].status <= 499)
           => /\ j = Len(trace) /\ calls = j /\ pc \in {"decide", "main", "done"}
              /\ pc = "done" => result = Rejected(HTTPStatusError(trace[j]))

C27_Witness ==
  /\ pc = "done" /\ impl = "main" /\ ~safe /\ MaxAttempts0 = 3 /\ ~opts.native
  /\ calls = 2 /\ trace = <<Resp(503, NoHdrs, FALSE), Resp(429, NoHdrs, FALSE)>>
  /\ result = HTTPStatusError(trace[2])


\* C28: in part_006 a response is retried only if its status is one of the
\* configured statusCodes; a response with any other status (404 or 503 with
\* statusCodes = [500]) ends the loop on that attempt, whatever attempts remain.
C28_OnlyStatusCodes ==
  impl = "p006" =>
    \A j \in 1..Len(trace) :
      (IsResp(trace[j]) /\ trace[j].status \notin opts.zstatusCodes)
        => /\ j = Len(trace) /\ calls = j /\ i = j - 1 /\ pc # "wait"
           /\ pc = "done"
                => result = IF _isHttpError(trace[j].status) /\ ~opts.znative
                            THEN Rejected(HTTPStatusError(trace[j])) ELSE trace[j]

C28_Witness ==
  /\ pc = "done" /\ impl = "p006" /\ ~safe /\ ~opts.znative /\ ~opts.znoIdempotent
  /\ opts.zmaxAttempts = 3 /\ opts.zstatusCodes = {500} /\ calls = 2
  /\ trace = <<Resp(500, NoHdrs, FALSE), Resp(404, NoHdrs, FALSE)>>
  /\ result = HTTPStatusError(trace[2])


\* a thrown error other than the sentinel of NO_RETRY_ERROR
PlainError(x) == x.kind = "err" /\ x.message # NO_RETRY_ERROR

\* C29: in main.ts, with maxAttempts >= 1 and a signal that does not fire, a
\* transport that rejects every attempt with an error other than the sentinel is
\* called exactly maxAttempts times (3 with the defaults) and the call rethrows
\* the error of the last attempt.
C29_ErrorsUseAllAttempts ==
  (/\ impl = "main" /\ pc = "done" /\ signal = "live" /\ MaxAttempts0 >= 1
   /\ \A j \in 1..Len(trace) : PlainError(trace[j]))
    => /\ calls = MaxAttempts0 /\ Len(trace) = calls
       /\ result = Rejected(Last(trace))

C29_Witness ==
  /\ pc = "done" /\ impl = "main" /\ ~safe /\ signal = "live"
  /\ options.retry = [off |-> FALSE, maxAttempts |-> Undef, interval |-> Undef,
                      maxInterval |-> Undef, retryAfter |-> Undef]
  /\ calls = 3
  /\ trace = <<Err("TypeError"), Err("TypeError"), Err("TimeoutError")>>
  /\ result = Err("TimeoutError")


\* trace[j] is a response with a retry header the policy respects whose value
\* cannot be parsed
BadHeader(j) ==
  /\ j \in 1..Len(trace) /\ IsResp(trace[j])
  /\ IF impl = "main" THEN opts.retryAfter /\ trace[j].hdrs["retry-after"] = BadHdr
     ELSE /\ \E k \in 1..Len(opts.zrespects) : trace[j].hdrs[opts.zrespects[k]] = BadHdr
          /\ \A k \in 1..Len(opts.zrespects) : trace[j].hdrs[opts.zrespects[k]].t # "int"

\* the decision for the same response at the same index without its headers
PlainDecision(j) ==
  LET plain == [trace[j] EXCEPT !.hdrs = NoHdrs]
  IN IF impl = "main" THEN _shouldNotRetry(j - 1, "live", _getOptions(options), plain)
     ELSE _shouldRetry(j - 1, opts, plain)

\* C30 as stated: a response with an unparseable retry header is handled as the
\* same response without the header: the loop waits the exponential-backoff
\* value of that index and goes on whenever it would go on without the header.
C30_Original ==
  \A j \in 1..Len(trace) :
    (BadHeader(j) /\ j = Len(trace)) =>
      /\ pc = "wait" => interval = PlainDecision(j).interval
      /\ (PlainDecision(j).d = "wait" /\ pc = "done") => i >= j

\* C30: an unparseable retry header throws no error, and is not treated as
\* absent.  In main.ts its interval is Infinity, which exceeds maxInterval: the
\* loop ends on that response.  In part_006 the next interval is the base
\* interval, not the exponential value of the index, and the loop goes on
\* whenever the base interval is within maxInterval.
C30_Unparseable ==
  \A j \in 1..Len(trace) :
    BadHeader(j) =>
      IF impl = "main"
      THEN /\ j = Len(trace) /\ calls = j /\ i = j - 1 /\ pc \in {"decide", "main", "done"}
           /\ pc = "done" => result = IF opts.native THEN trace[j]
                                      ELSE Rejected(HTTPStatusError(trace[j]))
      ELSE (j = Len(trace) /\ PlainDecision(j).d = "wait")
             => /\ pc = "wait" => interval = opts.zinterval
                /\ (pc = "done" /\ opts.zinterval <= opts.zmaxInterval) => i >= j

C30_Witness ==
  /\ pc = "wait" /\ impl = "p006" /\ i = 1 /\ calls = 2
  /\ opts.zinterval = 3000 /\ opts.zmaxInterval = 30000 /\ opts.zmaxAttempts = 3
  /\ trace = <<Resp(500, NoHdrs, FALSE), Resp(500, RetryAfterHdr(BadHdr), FALSE)>>
  /\ interval = 3000 /\ PlainDecision(2).interval = 6000


\* main.ts: the exponential backoff value of index k, before any cap
Exponential(k) == PowSeconds(Max(1000, opts.interval), k)

\* C31: in main.ts, when the exponential backoff value for the attempt index of a
\* response without a retry header exceeds maxInterval, the decision is stop: the
\* loop does not wait and makes no further attempt.
C31_StopBeyondMaxInterval ==
  impl = "main" =>
    \A j \in 1..Len(trace) :
      (/\ IsResp(trace[j]) /\ trace[j].hdrs = NoHdrs
       /\ Exponential(j - 1) > opts.maxInterval)
        => (j = Len(trace) /\ calls = j /\ pc # "wait")


\* the header at place k of the respected order, on the response in hand
Header(k) == outcome.hdrs[opts.zrespects[k]]

\* the numbers carried by the respected headers are all different
DistinctValues ==
  \A a, b \in 1..Len(opts.zrespects) :
    (a # b /\ Header(a).t = "int" /\ Header(b).t = "int") => Header(a).v # Header(b).v

\* C32 as stated: a later header is never used when an earlier one is present.
C32_Original ==
  (pc = "respected" /\ DistinctValues)
    => \A k, m \in 1..Len(opts.zrespects) :
         (k < m /\ Header(k) # Absent /\ Header(m).t = "int")
           => interval # Header(m).v * 1000

\* C32: in part_006 the interval is derived from the header that comes earliest
\* in the configured order among those whose value can be parsed (retry-after:
\* 10 with ratelimit-reset: 20 gives 10); a header that is present but cannot be
\* parsed is passed over, and a later header is used then.
C32_FirstParseable ==
  pc = "respected" =>
    \A k \in 1..Len(opts.zrespects) :
      (Header(k).t = "int" /\ \A m \in 1..(k - 1) : Header(m).t # "int")
        => interval = Max(Header(k).v * 1000, opts.zinterval)

C32_Witness ==
  /\ pc = "respected" /\ opts.zrespects = _DEFAULT_p6.zrespects
  /\ outcome.hdrs["retry-after"] = BadHdr /\ outcome.hdrs["ratelimit-reset"] = IntHdr(20)
  /\ outcome.hdrs["x-ratelimit-reset"] = IntHdr(10)
  /\ interval = 20000


\* a response that reports a followed redirect with status 303
Redirected303(x) == IsResp(x) /\ x.status = 303 /\ x.redirected

\* C33: in main.ts, after an attempt answered by a redirected 303 response, every
\* later attempt of the call is sent with the method GET, whatever the method of
\* the request was: the loop is never about to call the transport with another
\* method once such a response is in its past.
C33_GetAfter303 ==
  (/\ impl = "main" /\ pc \in {"fetch", "tail"}
   /\ \E j \in 1..Len(trace) : Redirected303(trace[j]))
    => init.method = "GET"

C33_Witness ==
  /\ impl = "main" /\ pc = "done" /\ request.method = "POST" /\ calls = 2
  /\ trace = <<Resp(303, NoHdrs, TRUE), Resp(200, NoHdrs, FALSE)>>
  /\ init.method = "GET" /\ result = trace[2]


\* C34: in main.ts with redirect: follow, when an attempt yields a 3xx response
\* and the loop continues, no backoff wait is applied between that response and
\* the next transport call.
C34_NoWaitAfterRedirect ==
  (/\ impl = "main" /\ opts.redirect = "follow" /\ pc = "wait"
   /\ trace # <<>> /\ Is3xx(Last(trace)))
    => interval = 0


\* C35: in part_006, for a Request that carries a body, every attempt is handed
\* a Request whose body was neither consumed nor cancelled: the clean-up
\* creq(true) at the end of an attempt that is retried leaves the request of the
\* next attempt usable, so the retry reaches the transport.
C35_RetryRequestUsable ==
  (impl = "p006" /\ request.hasBody)
    => /\ pc = "fetch" => ~(next # "undef" /\ Unusable(next))
       /\ calls >= i


\* the decision function of the running implementation says stop for the
\* outcome at hand (by its return value or by throwing)
StopDecision ==
  \/ /\ impl = "main" /\ pc = "decide"
     /\ _shouldNotRetry(i, signal, opts, outcome).d \in {"stop", "throw"}
  \/ /\ impl = "main" /\ pc = "catch"
     /\ _shouldNotRetry(i, signal, opts, NoOutcome).d = "stop"
  \/ /\ impl = "p006" /\ pc \in {"decide", "catch"}
     /\ _shouldRetry(i, opts, outcome).d = "stop"

\* the loop is being left: the response goes back to _main, the call is over,
\* or the error the loop itself threw is on its way through the catch block
Leaving ==
  \/ pc \in {"main", "done"}
  \/ pc = "catch" /\ outcome.name \in {"RedirectError", "HTTPStatusError"}

\* C36: in both implementations, once the decision function signals stop (by
\* return value or by throwing) the loop returns or throws in that same
\* iteration: no transport call and no wait follows a stop decision.
C36_StopEndsLoop ==
  [][/\ StopDecision => Leaving'
     /\ Leaving => (Leaving' /\ calls' = calls /\ i' = i /\ pc' \notin {"fetch", "tail", "wait"})]_vars

C36_Witness ==
  /\ impl = "main" /\ pc = "done" /\ options.redirect = Some("error")
  /\ MaxAttempts0 = 3 /\ opts.maxAttempts = 0
  /\ trace = <<Resp(301, NoHdrs, FALSE)>> /\ calls = 1 /\ i = 0
  /\ result = Rejected(RedirectError(trace[1]))


\* part_006: the loop continues with the next iteration
Continues == impl = "p006" /\ i' = i + 1

\* part_006: the step ends the backoff wait computed for the outcome at hand
AfterWait ==
  /\ pc = "wait" /\ IsResp(outcome)
  /\ interval = _getNextInterval_p6(i, opts, outcome.hdrs)

ThrowingRun == IF safe THEN other ELSE Cur
SafeRun == IF safe THEN Cur ELSE other

\* C38: in part_006, for the same policy and the same transport outcomes, the
\* safe run and the throwing run of _fetchWithRetry make the same transport
\* calls and the same waits: at equal positions they agree on everything but the
\* result, neither ends where the other goes on, and at the end the safe run
\* yields null exactly when the throwing run throws, the same response otherwise.
C38_SafeMirrorsThrowing ==
  LET t == ThrowingRun
      s == SafeRun
  IN /\ (s.trace = t.trace /\ s.i = t.i /\ s.pc = t.pc)
          => /\ s.calls = t.calls /\ s.interval = t.interval
             /\ s.next = t.next /\ s.outcome = t.outcome
     /\ s.pc = "done" => s.trace = t.trace
     /\ (t.pc = "done" /\ s.trace = t.trace /\ s.pc = "fetch")
          => (s.next # "undef" /\ Unusable(s.next))
     /\ (s.pc = "done" /\ t.pc = "done")
          => /\ s.i = t.i /\ s.calls = t.calls /\ s.interval = t.interval
             /\ s.result = Null <=> t.result.kind = "err"
             /\ t.result.kind # "err" => s.result = t.result

C38_Witness ==
  /\ SafeRun.pc = "done" /\ ThrowingRun.pc = "done"
  /\ SafeRun.trace = ThrowingRun.trace /\ Len(SafeRun.trace) = 3
  /\ IsTimeout(SafeRun.trace[1]) /\ Plain500(SafeRun.trace[2]) /\ Plain500(SafeRun.trace[3])
  /\ SafeRun.interval > 0 /\ SafeRun.interval = ThrowingRun.interval
  /\ SafeRun.result = Null /\ ThrowingRun.result = HTTPStatusError(SafeRun.trace[3])


\* C39: in main.ts the transport call behind the for-loop of _fetchWithRetry runs
\* only when maxAttempts is 0 at loop entry, so only when the loop body never
\* ran: it never comes on top of attempts made inside the loop, also not after
\* the redirect-error path has set opts.maxAttempts to 0.
C39_TailOnlyWithoutLoop ==
  impl = "main"
    => /\ pc = "tail" => (MaxAttempts0 = 0 /\ i = 0 /\ calls = 0 /\ trace = <<>>)
       /\ MaxAttempts0 >= 1 => calls <= i + 1
       /\ MaxAttempts0 = 0 => (i = 0 /\ calls <= 1)
       /\ opts.maxAttempts # MaxAttempts0 => (opts.maxAttempts = 0 /\ pc \in {"catch", "done"})

C39_Witness ==
  /\ impl = "main" /\ pc = "done" /\ MaxAttempts0 = 0
  /\ i = 0 /\ calls = 1 /\ trace = <<Resp(500, NoHdrs, FALSE)>>
  /\ result = Rejected(HTTPStatusError(trace[1]))


\* C40: in part_006 the statement throw new Error() behind the for-loop of
\* _fetchWithRetry is never reached, the effective maxAttempts being at least 1:
\* the loop index stays below maxAttempts and the loop leaves through a return
\* or a throw of its body.
C40_LoopNeverRunsOut ==
  impl = "p006"
    => /\ opts.zmaxAttempts >= 1
       /\ i < opts.zmaxAttempts
       /\ result # Err("Error")
       /\ pc = "done" => result # NoOutcome

C40_Witness ==
  /\ impl = "p006" /\ pc = "done" /\ opts.zmaxAttempts = 3
  /\ i = 2 /\ calls = 3 /\ \A j \in 1..3 : Plain500(trace[j])
  /\ result = Rejected(HTTPStatusError(trace[3]))

====
